---- MODULE Spec2Model ----
(***************************************************************************)
(* Model of curseuploadpy: the command line flow of cli.py (parse_args,    *)
(* main, resolve_game_versions) and CurseUploadClient.upload_file of       *)
(* client.py.  One run is either the CLI main flow or a direct library     *)
(* call of upload_file.                                                    *)
(***************************************************************************)
EXTENDS Integers, Sequences, FiniteSets, TLC

VARIABLES
    pc,            \* position of the running code
    caller,        \* "none", "main" (CLI) or "api" (direct upload_file call)
    args,          \* the argparse namespace of the CLI run
    catalog,       \* the version catalog the remote service holds
    version_table, \* main's version_table (the fetched catalog)
    resolving,     \* the version string the resolver loop is at (index)
    version_ids,   \* resolve_game_versions' local version_ids
    main_ids,      \* main's version_ids
    unmapped,      \* the strings logged by "Unable to map"
    deps,          \* main's deps
    exit_code,     \* the process exit status, -1 while running
    uf,            \* the arguments of the upload_file call
    metadata,      \* upload_file's metadata dict
    file_handle,   \* the handle of open(file_path, 'rb')
    http_log,      \* the HTTP requests issued, in order
    error,         \* the exception that ended the call, "none" if none
    response       \* what upload_file returned

vars == <<pc, caller, args, catalog, version_table, resolving, version_ids,
          main_ids, unmapped, deps, exit_code, uf, metadata, file_handle,
          http_log, error, response>>

----------------------------------------------------------------------------
(* Bounds *)

MaxVersions == 2
MaxCatalog == 2
MaxDeps == 2

----------------------------------------------------------------------------
(* Python values: None, int, str and list, tagged so that truthiness can be *)
(* computed as Python computes it.                                          *)

None == [t |-> "none"]
PyInt(n) == [t |-> "int", v |-> n]
PyStr(s) == [t |-> "str", v |-> s]
PyList(q) == [t |-> "list", v |-> q]

\* bool(x): None, 0, '' and [] are false
Truthy(x) ==
    CASE x.t = "none" -> FALSE
      [] x.t = "int"  -> x.v # 0
      [] x.t = "str"  -> x.v # ""
      [] x.t = "list" -> Len(x.v) > 0

SeqsUpTo(S, n) == UNION {[1..k -> S] : k \in 0..n}
NonEmptySeqsUpTo(S, n) == UNION {[1..k -> S] : k \in 1..n}

----------------------------------------------------------------------------
(* The inputs *)

VersionStrings == {"1.20.1", "1-19", "2.0"}

CatalogEntries ==
    { [name |-> "1.20.1", slug |-> "1-20-1", id |-> 100],
      [name |-> "1.19",   slug |-> "1-19",   id |-> 90],
      [name |-> "1-19",   slug |-> "1-19-x", id |-> 80] }

Catalogs == SeqsUpTo(CatalogEntries, MaxCatalog)

DepSlugs == {"libfoo", "libbar"}
DepTypes == {"embeddedLibrary", "incompatible", "optionalDependency",
             "requiredDependency", "tool"}
DepPairs == DepSlugs \X DepTypes

\* the --*-dep options: absent, or the list argparse appended
DepArg == {None, PyList(<<"libfoo">>)}

----------------------------------------------------------------------------
(* cli.py: main, the dependency list *)

dep_list(arg, kind) ==
    IF Truthy(arg) THEN [i \in 1..Len(arg.v) |-> <<arg.v[i], kind>>] ELSE <<>>

main_deps(a) ==
    dep_list(a.embedded_lib_dep, "embeddedLibrary")
        \o dep_list(a.incompatible_dep, "incompatible")
        \o dep_list(a.optional_dep, "optionalDependency")
        \o dep_list(a.required_dep, "requiredDependency")
        \o dep_list(a.tool_dep, "tool")

\* "x if len(x) > 0 else None"
or_none(q) == IF Len(q) > 0 THEN PyList(q) ELSE None

----------------------------------------------------------------------------
(* cli.py: parse_args *)

\* the checks of parse_args that end in parser.error (exit status 2)
parse_error(a) ==
    \/ Truthy(a.parent_file_id) /\ Truthy(a.version)
    \/ ~Truthy(a.parent_file_id) /\ ~Truthy(a.version)
    \/ ~a.files_exist

CliArgs ==
    [ parent_file_id : {None, PyStr(""), PyStr("55")},
      version : {None} \cup {PyList(q) : q \in NonEmptySeqsUpTo(VersionStrings, MaxVersions)},
      embedded_lib_dep : DepArg,
      incompatible_dep : DepArg,
      optional_dep : DepArg,
      required_dep : DepArg,
      tool_dep : DepArg,
      dryrun : BOOLEAN,
      files_exist : BOOLEAN ]

\* the number of dependency slugs a command line carries
dep_count(a) ==
    Len(main_deps(a))

----------------------------------------------------------------------------
(* cli.py: resolve_game_versions *)

\* the inner loop when the name branch does not leave the loop
RECURSIVE inner_loop_no_break(_, _, _)
inner_loop_no_break(table, version, j) ==
    IF j > Len(table) THEN [ids |-> <<>>, broke |-> FALSE]
    ELSE IF table[j].name = version \/ table[j].slug = version
         THEN LET rest == inner_loop_no_break(table, version, j + 1)
              IN  [ids |-> <<table[j].id>> \o rest.ids, broke |-> rest.broke]
    ELSE inner_loop_no_break(table, version, j + 1)

\* The inner loop "for v in curse_versions_table" for one version string,
\* from table position j: the ids it appends and whether it left by break.
RECURSIVE inner_loop(_, _, _)
inner_loop(table, version, j) ==
    IF j > Len(table) THEN [ids |-> <<>>, broke |-> FALSE]
    ELSE IF table[j].name = version
         THEN [ids |-> <<table[j].id>>, broke |-> TRUE]
    ELSE IF table[j].slug = version
         THEN LET rest == inner_loop(table, version, j + 1)
              IN  [ids |-> <<table[j].id>> \o rest.ids, broke |-> rest.broke]
    ELSE inner_loop(table, version, j + 1)

\* the loop without its else clause: an unmapped string is passed over
for_else_never(r) == FALSE

\* the else clause of the for loop runs when the loop was not left by break
for_else(r) == ~r.broke

----------------------------------------------------------------------------
(* client.py: upload_file *)

base_metadata == ("changelog" :> PyStr("fixes")) @@ ("changelogType" :> PyStr("text"))
                    @@ ("releaseType" :> PyStr("release"))

\* the chain without its first branch: both fields are set when both are given
target_check_both(md, parent_file_id, game_versions) ==
    IF Truthy(parent_file_id) \/ Truthy(game_versions)
    THEN [raise |-> "none",
          metadata |-> md @@ (IF Truthy(parent_file_id)
                              THEN ("parentFile" :> parent_file_id) ELSE <<>>)
                          @@ (IF Truthy(game_versions)
                              THEN ("gameVersions" :> game_versions) ELSE <<>>)]
    ELSE [raise |-> "MissingTarget", metadata |-> md]

\* the if/elif chain on parent_file_id and game_versions: the exception it
\* raises, if any, and the metadata it leaves
target_check(md, parent_file_id, game_versions) ==
    IF Truthy(parent_file_id) /\ Truthy(game_versions)
    THEN [raise |-> "ConflictingTarget", metadata |-> md]
    ELSE IF Truthy(parent_file_id)
    THEN [raise |-> "none", metadata |-> md @@ ("parentFile" :> parent_file_id)]
    ELSE IF Truthy(game_versions)
    THEN [raise |-> "none", metadata |-> md @@ ("gameVersions" :> game_versions)]
    ELSE [raise |-> "MissingTarget", metadata |-> md]

\* the loop when it skips a pair that is already in the list
RECURSIVE append_projects_unique(_, _, _)
append_projects_unique(projects, d, i) ==
    IF i > Len(d) THEN projects
    ELSE LET e == [slug |-> d[i][1], type |-> d[i][2]]
         IN  IF \E k \in 1..Len(projects) : projects[k] = e
             THEN append_projects_unique(projects, d, i + 1)
             ELSE append_projects_unique(Append(projects, e), d, i + 1)

\* "for slug, dep_type in deps: projects.append({...})", from position i
RECURSIVE append_projects(_, _, _)
append_projects(projects, d, i) ==
    IF i > Len(d) THEN projects
    ELSE append_projects(Append(projects, [slug |-> d[i][1], type |-> d[i][2]]), d, i + 1)

\* "if deps and len(deps) > 0"
has_deps(d) == Truthy(d) /\ Len(d.v) > 0

UploadArgs ==
    [ parent_file_id : {None, PyInt(0), PyInt(55), PyInt(-7)},
      game_versions : {None, PyList(<<>>), PyList(<<100>>), PyList(<<100, 90>>)},
      displayName : {None, PyStr(""), PyStr("My File")},
      deps : {None} \cup {PyList(q) : q \in SeqsUpTo(DepPairs, MaxDeps)},
      file_exists : BOOLEAN ]

NoUpload == [ parent_file_id |-> None, game_versions |-> None, displayName |-> None,
              deps |-> None, file_exists |-> FALSE ]

NoArgs == [ parent_file_id |-> None, version |-> None, embedded_lib_dep |-> None,
            incompatible_dep |-> None, optional_dep |-> None, required_dep |-> None,
            tool_dep |-> None, dryrun |-> FALSE, files_exist |-> FALSE ]

----------------------------------------------------------------------------
Init ==
    /\ pc = "idle"
    /\ caller = "none"
    /\ args = NoArgs
    /\ catalog = <<>>
    /\ version_table = <<>>
    /\ resolving = 0
    /\ version_ids = <<>>
    /\ main_ids = <<>>
    /\ unmapped = <<>>
    /\ deps = <<>>
    /\ exit_code = -1
    /\ uf = NoUpload
    /\ metadata = <<>>
    /\ file_handle = "none"
    /\ http_log = <<>>
    /\ error = "none"
    /\ response = "none"

----------------------------------------------------------------------------
(* The CLI run: parse_args and main *)

Exit(code) ==
    /\ pc' = "done"
    /\ exit_code' = code

\* parse_args, and main up to the creation of the client (cli.py 75-113)
ParseArgs ==
    /\ pc = "idle"
    /\ \E a \in CliArgs, c \in Catalogs :
        /\ dep_count(a) <= MaxDeps
        /\ args' = a
        /\ catalog' = c
        /\ caller' = "main"
        /\ IF parse_error(a)
           THEN Exit(2)
           ELSE pc' = "m_versions" /\ UNCHANGED exit_code
    /\ UNCHANGED <<version_table, resolving, version_ids, main_ids, unmapped, deps,
                   uf, metadata, file_handle, http_log, error, response>>

\* main: "if args.version: version_table = client.game_versions()" (cli.py 116-119),
\* up to the entry of resolve_game_versions (cli.py 165-167)
FetchVersions ==
    /\ pc = "m_versions"
    /\ IF Truthy(args.version)
       THEN /\ http_log' = Append(http_log, [method |-> "GET", url |-> "/api/game/versions"])
            /\ \/ /\ version_table' = catalog
                  /\ resolving' = 1
                  /\ pc' = "resolve"
                  /\ UNCHANGED <<error, exit_code>>
               \/ /\ error' = "TransportFailure"
                  /\ Exit(1)
                  /\ UNCHANGED <<version_table, resolving>>
       ELSE /\ pc' = "m_deps"
            /\ UNCHANGED <<http_log, version_table, resolving, error, exit_code>>
    /\ UNCHANGED <<caller, args, catalog, version_ids, main_ids, unmapped, deps,
                   uf, metadata, file_handle, response>>

\* one iteration of "for version in version_strings" (cli.py 168-179)
ResolveOne ==
    /\ pc = "resolve"
    /\ resolving <= Len(args.version.v)
    /\ LET r == inner_loop(version_table, args.version.v[resolving], 1)
       IN  /\ version_ids' = version_ids \o r.ids
           /\ IF for_else(r)
              THEN /\ unmapped' = Append(unmapped, args.version.v[resolving])
                   /\ Exit(1)
                   /\ UNCHANGED resolving
              ELSE /\ resolving' = resolving + 1
                   /\ UNCHANGED <<unmapped, pc, exit_code>>
    /\ UNCHANGED <<caller, args, catalog, version_table, main_ids, deps,
                   uf, metadata, file_handle, http_log, error, response>>

\* "return version_ids" (cli.py 181-182) and the assignment in main (cli.py 119)
ResolveReturn ==
    /\ pc = "resolve"
    /\ resolving > Len(args.version.v)
    /\ main_ids' = version_ids
    /\ pc' = "m_deps"
    /\ UNCHANGED <<caller, args, catalog, version_table, resolving, version_ids, unmapped,
                   deps, exit_code, uf, metadata, file_handle, http_log, error, response>>

\* main: the dependency list (cli.py 122-142)
HandleDeps ==
    /\ pc = "m_deps"
    /\ deps' = main_deps(args)
    /\ pc' = "m_upload"
    /\ UNCHANGED <<caller, args, catalog, version_table, resolving, version_ids, main_ids,
                   unmapped, exit_code, uf, metadata, file_handle, http_log, error, response>>

\* the flag ignored
dryrun_ignored(a) == FALSE

\* "if args.dryrun: exit(0)"
dryrun_exits(a) == a.dryrun

\* main: the dry run exit, else the call of client.upload_file (cli.py 144-158)
DryrunOrUpload ==
    /\ pc = "m_upload"
    /\ IF dryrun_exits(args)
       THEN /\ Exit(0)
            /\ UNCHANGED uf
       ELSE /\ uf' = [ parent_file_id |-> args.parent_file_id,
                       game_versions |-> or_none(main_ids),
                       displayName |-> None,
                       deps |-> or_none(deps),
                       file_exists |-> args.files_exist ]
            /\ pc' = "uf_target"
            /\ UNCHANGED exit_code
    /\ UNCHANGED <<caller, args, catalog, version_table, resolving, version_ids, main_ids,
                   unmapped, deps, metadata, file_handle, http_log, error, response>>

----------------------------------------------------------------------------
(* CurseUploadClient.upload_file *)

\* an exception leaves upload_file; the CLI does not catch it and the
\* interpreter ends with status 1
Raise(e) ==
    /\ error' = e
    /\ pc' = "done"
    /\ exit_code' = IF caller = "main" THEN 1 ELSE exit_code

\* a direct call of upload_file by a user of the library (client.py 43-52)
CallUploadFile ==
    /\ pc = "idle"
    /\ \E u \in UploadArgs :
        /\ uf' = u
        /\ caller' = "api"
        /\ pc' = "uf_target"
    /\ UNCHANGED <<args, catalog, version_table, resolving, version_ids, main_ids, unmapped,
                   deps, exit_code, metadata, file_handle, http_log, error, response>>

\* the target check when the file is opened at the top of upload_file
SetTarget_after_open ==
    /\ pc = "uf_target"
    /\ file_handle' = IF uf.file_exists THEN "open" ELSE file_handle
    /\ LET c == target_check(base_metadata, uf.parent_file_id, uf.game_versions)
       IN  IF c.raise # "none"
           THEN /\ Raise(c.raise)
                /\ metadata' = c.metadata
           ELSE /\ metadata' = c.metadata
                /\ pc' = "uf_display"
                /\ UNCHANGED <<error, exit_code>>
    /\ UNCHANGED <<caller, args, catalog, version_table, resolving, version_ids, main_ids,
                   unmapped, deps, uf, http_log, response>>

\* the base metadata and the target check (client.py 68-82)
SetTarget ==
    /\ pc = "uf_target"
    /\ LET c == target_check(base_metadata, uf.parent_file_id, uf.game_versions)
       IN  IF c.raise # "none"
           THEN /\ Raise(c.raise)
                /\ metadata' = c.metadata
           ELSE /\ metadata' = c.metadata
                /\ pc' = "uf_display"
                /\ UNCHANGED <<error, exit_code>>
    /\ UNCHANGED <<caller, args, catalog, version_table, resolving, version_ids, main_ids,
                   unmapped, deps, uf, file_handle, http_log, response>>

\* "if displayName: metadata['displayName'] = displayName" (client.py 84-85)
SetDisplayName ==
    /\ pc = "uf_display"
    /\ metadata' = IF Truthy(uf.displayName)
                   THEN metadata @@ ("displayName" :> uf.displayName)
                   ELSE metadata
    /\ pc' = "uf_relations"
    /\ UNCHANGED <<caller, args, catalog, version_table, resolving, version_ids, main_ids,
                   unmapped, deps, exit_code, uf, file_handle, http_log, error, response>>

\* the relations of the metadata (client.py 87-93)
SetRelations ==
    /\ pc = "uf_relations"
    /\ metadata' = IF has_deps(uf.deps)
                   THEN metadata @@ ("relations" :>
                            [projects |-> append_projects(<<>>, uf.deps.v, 1)])
                   ELSE metadata
    /\ pc' = "uf_open"
    /\ UNCHANGED <<caller, args, catalog, version_table, resolving, version_ids, main_ids,
                   unmapped, deps, exit_code, uf, file_handle, http_log, error, response>>

\* "files = {'file': open(file_path, 'rb'), 'metadata': ...}" (client.py 95-98)
OpenFile ==
    /\ pc = "uf_open"
    /\ IF uf.file_exists
       THEN /\ file_handle' = "open"
            /\ pc' = "uf_post"
            /\ UNCHANGED <<error, exit_code>>
       ELSE /\ Raise("FileNotFound")
            /\ UNCHANGED file_handle
    /\ UNCHANGED <<caller, args, catalog, version_table, resolving, version_ids, main_ids,
                   unmapped, deps, uf, metadata, http_log, response>>

\* "response = self._call_post(url, files=files)" (client.py 99, 28-31): the
\* POST answers with JSON, or the transport fails, or the answer is not JSON.
\* Nothing in _call_post or upload_file closes the handle.
CallPost ==
    /\ pc = "uf_post"
    /\ http_log' = Append(http_log, [method |-> "POST", url |-> "/api/projects/upload-file",
                                     metadata |-> metadata])
    /\ \/ /\ response' = "json"
          /\ pc' = "uf_return"
          /\ UNCHANGED <<error, exit_code>>
       \/ /\ Raise("TransportFailure")
          /\ UNCHANGED response
       \/ /\ Raise("NotJson")
          /\ UNCHANGED response
    /\ UNCHANGED <<caller, args, catalog, version_table, resolving, version_ids, main_ids,
                   unmapped, deps, uf, metadata, file_handle>>

\* "return response" (client.py 100): the frame's reference to the handle is
\* dropped; whether the handle is closed by then is up to the garbage collector
Return ==
    /\ pc = "uf_return"
    /\ file_handle' \in {"open", "closed"}
    /\ pc' = IF caller = "main" THEN "m_exit" ELSE "done"
    /\ UNCHANGED <<caller, args, catalog, version_table, resolving, version_ids, main_ids,
                   unmapped, deps, exit_code, uf, metadata, http_log, error, response>>

\* main: the response is logged and the run ends (cli.py 160-161)
MainExit ==
    /\ pc = "m_exit"
    /\ Exit(0)
    /\ UNCHANGED <<caller, args, catalog, version_table, resolving, version_ids, main_ids,
                   unmapped, deps, uf, metadata, file_handle, http_log, error, response>>

----------------------------------------------------------------------------
Next ==
    \/ ParseArgs
    \/ FetchVersions
    \/ ResolveOne
    \/ ResolveReturn
    \/ HandleDeps
    \/ DryrunOrUpload
    \/ CallUploadFile
    \/ SetTarget
    \/ SetDisplayName
    \/ SetRelations
    \/ OpenFile
    \/ CallPost
    \/ Return
    \/ MainExit

Spec == Init /\ [][Next]_vars

TypeOK ==
    /\ pc \in {"idle", "m_versions", "resolve", "m_deps", "m_upload", "uf_target",
               "uf_display", "uf_relations", "uf_open", "uf_post", "uf_return",
               "m_exit", "done"}
    /\ caller \in {"none", "main", "api"}
    /\ exit_code \in {-1, 0, 1, 2}
    /\ file_handle \in {"none", "open", "closed"}

----------------------------------------------------------------------------
(* What the properties speak about *)

\* the metadata objects that reached the HTTP POST
Posted == { http_log[i].metadata : i \in {k \in 1..Len(http_log) : http_log[k].method = "POST"} }

NoPost == \A i \in 1..Len(http_log) : http_log[i].method # "POST"

InUploadFile == pc \in {"uf_target", "uf_display", "uf_relations", "uf_open", "uf_post",
                        "uf_return"}

\* upload_file was entered and has passed its target check, or was left by it
TargetChecked == DOMAIN metadata # {}

\* upload_file has passed the relations block
RelationsDone ==
    \/ pc \in {"uf_open", "uf_post", "uf_return", "m_exit"}
    \/ pc = "done" /\ (response = "json" \/ error \in {"FileNotFound", "TransportFailure", "NotJson"})
                   /\ TargetChecked

HasParentFile(m) == "parentFile" \in DOMAIN m
HasGameVersions(m) == "gameVersions" \in DOMAIN m

\* a parent file id was given to upload_file: any integer
ParentGiven == uf.parent_file_id.t = "int"
\* upload_file was called with an integer or no parent file id (the CLI passes text)
IntegerCall == uf.parent_file_id.t \in {"none", "int"}
\* a non-empty sequence of version ids was given to upload_file
VersionsGiven == uf.game_versions.t = "list" /\ Len(uf.game_versions.v) > 0

----------------------------------------------------------------------------
(* C1: every metadata object that reaches the HTTP POST holds exactly one   *)
(* of the fields parentFile and gameVersions, never both and never neither. *)
C1_ExactlyOneTarget ==
    \A m \in Posted : HasParentFile(m) # HasGameVersions(m)

\* a POST was made for a call that gave a parent file id and an empty version list
C1_Witness ==
    /\ Posted # {}
    /\ uf.parent_file_id = PyInt(55)
    /\ uf.game_versions = PyList(<<>>)
    /\ \A m \in Posted : HasParentFile(m)

(* C2: upload_file fails with ConflictingTarget when a parent file id and a  *)
(* non-empty version sequence are both given, with MissingTarget when        *)
(* neither is given, and otherwise goes on with exactly one target field     *)
(* set, for every integer parent file id.                                    *)
C2_TargetOutcome ==
    (TargetChecked /\ IntegerCall) =>
        /\ (ParentGiven /\ VersionsGiven) => error = "ConflictingTarget"
        /\ (~ParentGiven /\ ~VersionsGiven) => error = "MissingTarget"
        /\ (ParentGiven # VersionsGiven) =>
              /\ error \notin {"ConflictingTarget", "MissingTarget"}
              /\ HasParentFile(metadata) # HasGameVersions(metadata)
              /\ HasParentFile(metadata) = ParentGiven

(* C6: when upload_file fails its target check (ConflictingTarget or         *)
(* MissingTarget) no HTTP call has been made and the upload file was never   *)
(* opened.                                                                   *)
C6_FailsBeforeRequest ==
    error \in {"ConflictingTarget", "MissingTarget"} =>
        /\ http_log = <<>>
        /\ file_handle = "none"

\* a call whose file exists was refused for giving both targets
C6_Witness ==
    /\ error = "ConflictingTarget"
    /\ pc = "done"
    /\ uf.file_exists

(* C7: no run of upload_file ends with the file handle it opened still open. *)
C7_HandleClosedAtExit ==
    pc \in {"done", "m_exit"} => file_handle # "open"

(* C8: the relations.projects array of the built metadata has one            *)
(* {slug, type} entry per dependency pair given, in the order given and      *)
(* with duplicates kept; with no or an empty dependency sequence the         *)
(* metadata has no relations field.                                          *)
C8_RelationsVerbatim ==
    RelationsDone =>
        LET d == IF uf.deps.t = "list" THEN uf.deps.v ELSE <<>>
        IN  IF Len(d) = 0
            THEN "relations" \notin DOMAIN metadata
            ELSE /\ "relations" \in DOMAIN metadata
                 /\ DOMAIN metadata.relations = {"projects"}
                 /\ Len(metadata.relations.projects) = Len(d)
                 /\ \A i \in 1..Len(d) :
                        /\ metadata.relations.projects[i].slug = d[i][1]
                        /\ metadata.relations.projects[i].type = d[i][2]

\* metadata with the same dependency pair twice was posted
C8_Witness ==
    /\ Posted = {metadata}
    /\ uf.deps.t = "list"
    /\ Len(uf.deps.v) = 2
    /\ uf.deps.v[1] = uf.deps.v[2]
    /\ Len(metadata.relations.projects) = 2

----------------------------------------------------------------------------
(* The resolver: what the properties speak about *)

\* the version strings given on the command line
Given == IF Truthy(args.version) THEN args.version.v ELSE <<>>

\* some catalog entry has the string as its name or as its slug
Matches(table, s) == \E j \in 1..Len(table) : table[j].name = s \/ table[j].slug = s

\* some catalog entry has the string as its name
HasName(table, s) == \E j \in 1..Len(table) : table[j].name = s

\* the id of the first entry, in catalog order, whose name or slug is the string
FirstMatchId(table, s) ==
    table[CHOOSE j \in 1..Len(table) :
            /\ table[j].name = s \/ table[j].slug = s
            /\ \A k \in 1..(j - 1) : table[k].name # s /\ table[k].slug # s].id

\* the catalog was fetched and resolve_game_versions was entered: the GET
\* was issued and it is not the request that failed
Resolving ==
    /\ caller = "main"
    /\ Truthy(args.version)
    /\ Len(http_log) >= 1
    /\ ~(Len(http_log) = 1 /\ error = "TransportFailure")

\* resolve_game_versions has returned to main
Resolved == Resolving /\ pc # "resolve" /\ unmapped = <<>>

(* C3: when every given version string equals the name or the slug of some   *)
(* catalog entry, resolve_game_versions returns normally, and returns for    *)
(* each string, in the order given, the id of the first catalog entry whose  *)
(* name or slug equals it.                                                   *)
C3_ResolvesFirstMatch ==
    (Resolving /\ \A i \in 1..Len(Given) : Matches(version_table, Given[i])) =>
        /\ unmapped = <<>>
        /\ Resolved =>
              /\ Len(main_ids) = Len(Given)
              /\ \A i \in 1..Len(Given) : main_ids[i] = FirstMatchId(version_table, Given[i])

(* C4: in a CLI run in which a given version string matches no catalog       *)
(* entry, by name or by slug, the upload POST is never issued and            *)
(* upload_file is never entered, and the run ends with a failure status.     *)
C4_UnmatchedNeverUploads ==
    (caller = "main" /\ \E i \in 1..Len(Given) : ~Matches(catalog, Given[i])) =>
        /\ NoPost
        /\ ~InUploadFile
        /\ pc # "m_exit"
        /\ pc = "done" => exit_code \in {1, 2}

\* the first string resolved, the second matched nothing: the run ended with
\* status 1 holding one resolved id
C4_Witness ==
    /\ pc = "done"
    /\ exit_code = 1
    /\ Len(Given) = 2
    /\ Matches(catalog, Given[1])
    /\ ~Matches(catalog, Given[2])
    /\ Len(version_ids) = 1
    /\ unmapped = <<Given[2]>>

C9_DryrunNeverUploads ==
    (caller = "main" /\ args.dryrun) =>
        /\ NoPost
        /\ ~InUploadFile
        /\ pc # "m_exit"
        /\ uf = NoUpload
        /\ file_handle = "none"

\* a dry run with versions ended with status 0 after the catalog GET
C9_Witness ==
    /\ caller = "main"
    /\ args.dryrun
    /\ pc = "done"
    /\ exit_code = 0
    /\ Len(http_log) = 1
    /\ http_log[1].method = "GET"
    /\ main_ids # <<>>

(* C10: each given version string contributes exactly one id: while the      *)
(* resolver has not failed, after k strings have been processed the result   *)
(* holds k ids, and after it has returned main holds one id per string.      *)
C10_OneIdPerInput ==
    (Resolving /\ unmapped = <<>>) =>
        /\ pc = "resolve" => Len(version_ids) = resolving - 1
        /\ pc # "resolve" => Len(main_ids) = Len(Given)

====
